---- MODULE Spec2Model ----
(***************************************************************************)
(* GuardBotV2: the authorization broker (src/GuardBackand/main.py), the    *)
(* chat-platform gateway (src/GuardBot/main.py), the desktop client        *)
(* (src/GuardClient/main.py) and the state they share.                     *)
(*                                                                         *)
(* Each broker handler that contains no await between its reads and its    *)
(* writes runs to completion on the single event loop, so it is one        *)
(* action.  The identity provider, the chat platform and the storage       *)
(* backend are external: their answers are inputs of the actions.          *)
(***************************************************************************)
EXTENDS Integers, Sequences, FiniteSets, Bags, TLC

(***************************************************************************)
(* Bounds of the exploration.                                              *)
(***************************************************************************)
MaxRawLen == 2
MaxInflight == 2
MaxPosts == 2

(***************************************************************************)
(* Finite universes the inputs are drawn from.                             *)
(***************************************************************************)
Tokens == {"T1", "T2"}
Browsers == {"B1", "B2"}
Hosts == {"H", "otherhost"}
UserIds == {42, 43}
GuildIds == {7, 8}
ChannelIds == {100, 101, 200}
\* A channel belongs to one guild.
ChannelsOf(g) == IF g = 7 THEN {100, 101} ELSE {200}
Contents == {"hello", "bye"}
DefaultMessage == "Default message"

\* Identifiers as the platform's JSON carries them (decimal strings); the raw
\* descriptors below add a non-canonical spelling and a malformed one that
\* only a direct caller of the gateway can send.
CanonicalIdStrs == {"7", "8", "42", "43", "100", "101", "200"}

NoValue == "None"

\* Python int(str): parses decimal digits, tolerating leading zeros; raises
\* ValueError on anything else (modelled as -1).
PyInt(s) ==
    CASE s = "7" -> 7
      [] s = "07" -> 7
      [] s = "8" -> 8
      [] s = "42" -> 42
      [] s = "43" -> 43
      [] s = "100" -> 100
      [] s = "101" -> 101
      [] s = "200" -> 200
      [] OTHER -> -1

PyIntOk(s) == PyInt(s) # -1

\* json.dumps of an int dictionary key: the canonical decimal string.
JsonKey(n) == CHOOSE s \in CanonicalIdStrs : PyInt(s) = n

\* json.dumps of a dict keyed by ints: same values, keys turned into strings
\* (json.loads gives the string keys back as they are).
JsonObj(d) ==
    [k \in {JsonKey(n) : n \in DOMAIN d} |-> d[PyInt(k)]]

ChannelName(c) == IF c = 100 THEN "general" ELSE IF c = 101 THEN "random" ELSE "lobby"
MemberName(m) == IF m = 42 THEN "alice" ELSE "bob"

\* What a direct caller of the gateway may put into a guild entry.
RawDescriptors == [id : {"7", "07", "8", "x"}, name : {"G"}]

SeqsUpTo(S, n) == UNION {[1..k -> S] : k \in 0..n}

VARIABLES
    guilds,        \* gateway: guild id -> [channels, members] for every joined guild
    posted,        \* gateway: notifications posted to channels
    botResp,       \* gateway: the answer its HTTP service has just given
    lastRecon,     \* history: approved ids of the reconciliations since the last membership change
    oauth_state,   \* broker: browser session -> state bound by /auth/login
    issued,        \* broker: tokens generated by /auth/login
    sessions,      \* broker: state token -> session record
    users,         \* storage: discord ids of the user records
    servers,       \* storage: discord ids of the server records
    messages,      \* storage: bag of message rows
    resp,          \* broker: the answer it has just given
    completed,     \* history: (token, host) pairs a callback completed with
    inflight,      \* broker: save requests received and not yet handled
    batch,         \* history: saves handled since the in-flight set was last empty
    http_server,   \* client: Application.http_server, the listener it refers to
    listener,      \* client: listener -> where its serving thread is
    starting,      \* client: run_server threads started that have not yet built their listener
    app,           \* client: Application's and Config's fields
    gui,           \* client: what the window shows
    events         \* history: listener -> what its handler did for its last request, in order

gatewayVars == <<guilds, posted, botResp, lastRecon>>
authVars == <<oauth_state, issued, sessions, completed>>
storeVars == <<users, servers, messages>>
saveVars == <<inflight, batch>>
clientVars == <<http_server, listener, starting, app, gui, events>>
vars == <<guilds, posted, botResp, lastRecon, oauth_state, issued, sessions,
          users, servers, messages, resp, completed, inflight, batch,
          http_server, listener, starting, app, gui, events>>

NoResp == [op |-> "none"]
\* No exception was raised inside the handler.
NoRaise == [status |-> -1, detail |-> "none"]
NoRecon == [raw |-> <<>>, ids |-> {}, repeated |-> FALSE, prevIds |-> {}]

\* The client's loopback listeners: the HTTPServer objects that can exist at
\* one time.
Listeners == {1, 2}
\* self.http_server = None
NoListener == 0
\* self.user_id = None, self.selected_guild_id = None
NoId == 0
\* No HTTPServer object, or one that was closed.
Free == [at |-> "free", state |-> NoValue]

Init ==
    /\ guilds = <<>>
    /\ posted = <<>>
    /\ botResp = NoResp
    /\ lastRecon = NoRecon
    /\ oauth_state = [b \in Browsers |-> NoValue]
    /\ issued = {}
    /\ sessions = <<>>
    /\ users = {}
    /\ servers = {}
    /\ messages = EmptyBag
    /\ resp = NoResp
    /\ completed = {}
    /\ inflight = {}
    /\ batch = {}
    /\ http_server = NoListener
    /\ listener = [l \in Listeners |-> Free]
    /\ starting = 0
    /\ app = [user_id |-> NoId, guilds |-> <<>>,
              selected_guild_id |-> NoId, config_state |-> NoValue]
    /\ gui = [status |-> "Unauthorized", auth_panel |-> TRUE, guild_panel |-> FALSE,
              message_panel |-> FALSE, combo_items |-> {}, combo_value |-> "",
              log |-> "none"]
    /\ events = [l \in Listeners |-> <<>>]

(***************************************************************************)
(* Gateway: the guild cache kept by the platform library.                  *)
(***************************************************************************)
\* Truthiness of Bot.get_guild(id): the guild is in the cache.
get_guild(id) == id \in DOMAIN guilds

GuildJoin(g, chans, mems) ==
    /\ g \notin DOMAIN guilds
    /\ guilds' = [x \in DOMAIN guilds \cup {g} |->
                    IF x = g THEN [channels |-> chans, members |-> mems] ELSE guilds[x]]
    /\ lastRecon' = NoRecon
    /\ botResp' = NoResp
    /\ UNCHANGED posted
    /\ UNCHANGED <<authVars, storeVars, saveVars>>
    /\ UNCHANGED clientVars
    /\ resp' = NoResp

GuildRemove(g) ==
    /\ g \in DOMAIN guilds
    /\ guilds' = [x \in DOMAIN guilds \ {g} |-> guilds[x]]
    /\ lastRecon' = NoRecon
    /\ botResp' = NoResp
    /\ UNCHANGED posted
    /\ UNCHANGED <<authVars, storeVars, saveVars>>
    /\ UNCHANGED clientVars
    /\ resp' = NoResp

\* A channel is created or deleted, a member joins or leaves, in a joined guild.
GuildUpdate(g, chans, mems) ==
    /\ g \in DOMAIN guilds
    /\ guilds[g] # [channels |-> chans, members |-> mems]
    /\ \/ /\ mems = guilds[g].members
          /\ Cardinality((chans \ guilds[g].channels) \cup (guilds[g].channels \ chans)) = 1
       \/ /\ chans = guilds[g].channels
          /\ Cardinality((mems \ guilds[g].members) \cup (guilds[g].members \ mems)) = 1
    /\ guilds' = [guilds EXCEPT ![g] = [channels |-> chans, members |-> mems]]
    /\ botResp' = NoResp
    /\ UNCHANGED <<posted, lastRecon>>
    /\ UNCHANGED <<authVars, storeVars, saveVars>>
    /\ UNCHANGED clientVars
    /\ resp' = NoResp

(***************************************************************************)
(* Gateway: POST /overhaul_guilds (GuildReconciler).                       *)
(***************************************************************************)
\* Mutant: the members of an approved guild are left out.
ApprovedEntryNoMembers(d) ==
    [id |-> PyInt(d.id),
     name |-> d.name,
     guild |-> d,
     channels |-> [c \in guilds[PyInt(d.id)].channels |-> [id |-> c, name |-> ChannelName(c)]],
     members |-> <<>>]

ApprovedEntry(d) ==
    [id |-> PyInt(d.id),
     name |-> d.name,
     guild |-> d,
     channels |-> [c \in guilds[PyInt(d.id)].channels |-> [id |-> c, name |-> ChannelName(c)]],
     members |-> [m \in guilds[PyInt(d.id)].members |-> [id |-> m, name |-> MemberName(m)]]]

\* Mutant: the loop approves every requested guild without asking the cache.
RECURSIVE ApproveLoopNoFilter(_, _, _)
ApproveLoopNoFilter(raw, i, acc) ==
    IF i > Len(raw) THEN acc
    ELSE ApproveLoopNoFilter(raw, i + 1,
             [k \in DOMAIN acc \cup {PyInt(raw[i].id)} |->
                 IF k = PyInt(raw[i].id)
                 THEN [id |-> k, name |-> raw[i].name, guild |-> raw[i],
                       channels |-> <<>>, members |-> <<>>]
                 ELSE acc[k]])

\* Mutant: the loop approves a joined guild only while it has channels.
RECURSIVE ApproveLoopNeedsChannels(_, _, _)
ApproveLoopNeedsChannels(raw, i, acc) ==
    IF i > Len(raw) THEN acc
    ELSE IF get_guild(PyInt(raw[i].id)) /\ guilds[PyInt(raw[i].id)].channels # {}
         THEN ApproveLoopNeedsChannels(raw, i + 1,
                  [k \in DOMAIN acc \cup {PyInt(raw[i].id)} |->
                      IF k = PyInt(raw[i].id) THEN ApprovedEntry(raw[i]) ELSE acc[k]])
         ELSE ApproveLoopNeedsChannels(raw, i + 1, acc)

\* The loop over the request's guilds: a later entry with the same int id
\* overwrites an earlier one.
RECURSIVE ApproveLoop(_, _, _)
ApproveLoop(raw, i, acc) ==
    IF i > Len(raw) THEN acc
    ELSE IF get_guild(PyInt(raw[i].id))
         THEN ApproveLoop(raw, i + 1,
                  [k \in DOMAIN acc \cup {PyInt(raw[i].id)} |->
                      IF k = PyInt(raw[i].id) THEN ApprovedEntry(raw[i]) ELSE acc[k]])
         ELSE ApproveLoop(raw, i + 1, acc)

\* json.dumps(approved_guild): every int key, outer and inner, becomes a string.
DumpApproved(a) ==
    JsonObj([n \in DOMAIN a |->
        [a[n] EXCEPT !.channels = JsonObj(@), !.members = JsonObj(@)]])

\* The answer of handle_guild_request; memberOf records the guild cache's keys
\* at the time of the call.
OverhaulResponse(raw) ==
    IF \E i \in 1..Len(raw) : ~PyIntOk(raw[i].id)
    THEN [op |-> "overhaul_guilds", status |-> 500, raw |-> raw,
          memberOf |-> DOMAIN guilds, approved |-> <<>>]
    ELSE [op |-> "overhaul_guilds", status |-> 200, raw |-> raw,
          memberOf |-> DOMAIN guilds, approved |-> DumpApproved(ApproveLoop(raw, 1, <<>>))]

ApprovedIds(r) == {PyInt(k) : k \in DOMAIN r.approved}

\* The history of consecutive successful reconciliations of one raw list.
ReconAfter(r) ==
    IF r.status # 200 THEN NoRecon
    ELSE [raw |-> r.raw, ids |-> ApprovedIds(r),
          repeated |-> (lastRecon # NoRecon /\ lastRecon.raw = r.raw),
          prevIds |-> IF lastRecon # NoRecon /\ lastRecon.raw = r.raw
                      THEN lastRecon.ids ELSE {}]

\* A direct call of the gateway's reconciliation endpoint.
Reconcile(raw) ==
    /\ botResp' = OverhaulResponse(raw)
    /\ lastRecon' = ReconAfter(OverhaulResponse(raw))
    /\ UNCHANGED <<guilds, posted>>
    /\ UNCHANGED <<authVars, storeVars, saveVars>>
    /\ UNCHANGED clientVars
    /\ resp' = NoResp

(***************************************************************************)
(* Gateway: POST /send_message.                                            *)
(***************************************************************************)
\* Mutant: the membership check of the user is skipped.
SendResponseNoMemberCheck(user_id, server_id, channel_id) ==
    IF ~get_guild(server_id)
    THEN [status |-> 404, error |-> "Server not found"]
    ELSE IF channel_id \notin guilds[server_id].channels
    THEN [status |-> 404, error |-> "System channel not found"]
    ELSE [status |-> 200, error |-> ""]

\* Status and error text of handle_send's answer.
SendResponse(user_id, server_id, channel_id) ==
    IF ~get_guild(server_id)
    THEN [status |-> 404, error |-> "Server not found"]
    ELSE IF user_id \notin guilds[server_id].members
    THEN [status |-> 404, error |-> "User not found"]
    ELSE IF channel_id \notin guilds[server_id].channels
    THEN [status |-> 404, error |-> "System channel not found"]
    ELSE [status |-> 200, error |-> ""]

\* channel.send(embed): the notification appended to the log of posts.
PostedAfter(user_id, server_id, channel_id, content) ==
    IF SendResponse(user_id, server_id, channel_id).status = 200
    THEN Append(posted, [server |-> server_id, channel |-> channel_id,
                         author |-> user_id, description |-> content])
    ELSE posted

SendAnswer(user_id, server_id, channel_id, content) ==
    [op |-> "send_message",
     req |-> [user |-> user_id, server |-> server_id, channel |-> channel_id,
              content |-> content],
     status |-> SendResponse(user_id, server_id, channel_id).status,
     error |-> SendResponse(user_id, server_id, channel_id).error]

\* A direct call of the gateway's send endpoint with a well-formed body.
GatewaySend(user_id, server_id, channel_id, content) ==
    /\ SendResponse(user_id, server_id, channel_id).status = 200 => Len(posted) < MaxPosts
    /\ botResp' = SendAnswer(user_id, server_id, channel_id, content)
    /\ posted' = PostedAfter(user_id, server_id, channel_id, content)
    /\ UNCHANGED <<guilds, lastRecon>>
    /\ UNCHANGED <<authVars, storeVars, saveVars>>
    /\ UNCHANGED clientVars
    /\ resp' = NoResp

GatewayEvent ==
    \/ \E g \in GuildIds : \E chans \in SUBSET ChannelsOf(g), mems \in SUBSET UserIds :
          GuildJoin(g, chans, mems)
    \/ \E g \in GuildIds : GuildRemove(g)
    \/ \E g \in GuildIds : \E chans \in SUBSET ChannelsOf(g), mems \in SUBSET UserIds :
          GuildUpdate(g, chans, mems)

\* The gateway serving reconciliation requests while its guild cache changes.
NextRecon ==
    \/ GatewayEvent
    \/ \E raw \in SeqsUpTo(RawDescriptors, MaxRawLen) : Reconcile(raw)

SpecRecon == Init /\ [][NextRecon]_vars

\* The gateway serving send requests while its guild cache changes.
NextSend ==
    \/ GatewayEvent
    \/ \E u \in UserIds, g \in GuildIds, c \in ChannelIds : GatewaySend(u, g, c, "hello")

SpecSend == Init /\ [][NextSend]_vars

(***************************************************************************)
(* Broker: GET /auth/login.                                                *)
(***************************************************************************)
\* Mutant: a browser session that holds a state keeps it at a later login.
OauthStateAfterLoginKeepsFirst(b, t) ==
    IF oauth_state[b] = NoValue THEN [oauth_state EXCEPT ![b] = t] ELSE oauth_state

\* request.session["oauth_state"] = state: the one slot of the browser
\* session is overwritten.
OauthStateAfterLogin(b, t) ==
    [oauth_state EXCEPT ![b] = t]

\* secrets.token_urlsafe(16): a token that was never generated before, bound
\* to the browser session of the requester.
Login(b, t) ==
    /\ t \in Tokens \ issued
    /\ issued' = issued \cup {t}
    /\ oauth_state' = OauthStateAfterLogin(b, t)
    /\ UNCHANGED clientVars
    /\ resp' = [op |-> "login", status |-> 302, state |-> t,
                raised |-> NoRaise, escaped |-> FALSE, errorJson |-> FALSE]
    /\ botResp' = NoResp
    /\ UNCHANGED <<sessions, completed>>
    /\ UNCHANGED <<guilds, posted, lastRecon, storeVars, saveVars>>

(***************************************************************************)
(* Broker: GET /auth/callback.                                             *)
(***************************************************************************)
\* What the identity provider returns for @me/guilds: distinct guilds with
\* canonical ids.
ProviderGuildLists ==
    {<<>>, <<[id |-> "7", name |-> "G"]>>,
     <<[id |-> "7", name |-> "G"], [id |-> "8", name |-> "K"]>>}

\* Non-success statuses the provider may answer a fetch with.
UpstreamStatuses == {401, 500}

\* Mutant: the state is not compared with the one bound at login.
CallbackStateOkUnbound(b, state) ==
    state # NoValue

\* The state checks at the head of the handler.
CallbackStateOk(b, state) ==
    /\ state # NoValue
    /\ oauth_state[b] # NoValue
    /\ oauth_state[b] = state

\* Mutant: the handler stores the session without upserting the user.
CallbackSkipsUser(b, state, outcome) ==
    FALSE

\* The user upsert is reached once the token exchange and the identity fetch
\* succeeded.
CallbackReachesUser(b, state, outcome) ==
    CallbackStateOk(b, state) /\ outcome \notin {"token_error", "user_error"}

CallbackCompletes(b, state, outcome) ==
    CallbackStateOk(b, state) /\ outcome = "ok"

\* Mutant: the session is stored under a token other than the callback's state.
SessionsAfterCallbackOtherKey(state, host, user_id, glist) ==
    [t \in DOMAIN sessions \cup {CHOOSE k \in Tokens : k # state} |->
        IF t = (CHOOSE k \in Tokens : k # state)
        THEN [host |-> host, user_id |-> user_id, guilds |-> glist]
        ELSE sessions[t]]

\* sessions[state] = {...}: a plain dictionary assignment.
SessionsAfterCallback(state, host, user_id, glist) ==
    [t \in DOMAIN sessions \cup {state} |->
        IF t = state THEN [host |-> host, user_id |-> user_id, guilds |-> glist]
        ELSE sessions[t]]

\* The provider calls the handler makes, in order: the token exchange, the
\* identity fetch, the guild-list fetch.
CallbackCalls(b, state, outcome) ==
    IF ~CallbackStateOk(b, state) THEN <<>>
    ELSE IF outcome = "token_error" THEN <<"token">>
    ELSE IF outcome = "user_error" THEN <<"token", "user">>
    ELSE <<"token", "user", "guilds">>

\* The exception raised inside the handler's try block: an HTTPException with
\* its status and detail, or the provider client's own error (status 0).
CallbackRaised(b, state, outcome, upstream) ==
    IF state = NoValue THEN [status |-> 400, detail |-> "Missing state parameter"]
    ELSE IF ~CallbackStateOk(b, state) THEN [status |-> 400, detail |-> "Invalid state"]
    ELSE IF outcome = "token_error" THEN [status |-> 0, detail |-> "OAuthError"]
    ELSE IF outcome = "user_error"
         THEN [status |-> upstream, detail |-> "Failed to fetch user data"]
    ELSE IF outcome = "guilds_error"
         THEN [status |-> upstream, detail |-> "Failed to fetch guilds"]
    ELSE NoRaise

\* Every failure inside the handler, HTTPException included, is caught by the
\* handler's except clause and re-raised as 400 "Authentication failed".
\* bound: the state the requester's browser session holds; upstream: the
\* status of the provider's failing answer (0 when no fetch failed);
\* redirect: the state the redirect to the loopback listener carries;
\* errorJson: the body is the JSON {status: error, error: message}, which
\* the {detail: ...} body of an HTTPException is not.
CallbackAnswer(b, state, host, outcome, upstream) ==
    IF CallbackCompletes(b, state, outcome)
    THEN [op |-> "callback", status |-> 307, state |-> state,
          detail |-> "redirect to loopback", redirect |-> state, bound |-> oauth_state[b],
          calls |-> CallbackCalls(b, state, outcome), upstream |-> 0,
          raised |-> NoRaise, escaped |-> FALSE, errorJson |-> FALSE]
    ELSE [op |-> "callback", status |-> 400, state |-> state,
          detail |-> "Authentication failed", redirect |-> NoValue, bound |-> oauth_state[b],
          calls |-> CallbackCalls(b, state, outcome),
          upstream |-> IF CallbackStateOk(b, state) /\ outcome \in {"user_error", "guilds_error"}
                       THEN upstream ELSE 0,
          raised |-> CallbackRaised(b, state, outcome, upstream), escaped |-> FALSE,
          errorJson |-> FALSE]

Callback(b, state, host, outcome, upstream, identity, glist) ==
    /\ users' = IF CallbackReachesUser(b, state, outcome)
                THEN users \cup {PyInt(identity)} ELSE users
    /\ servers' = IF CallbackCompletes(b, state, outcome)
                  THEN servers \cup {PyInt(glist[i].id) : i \in 1..Len(glist)} ELSE servers
    /\ sessions' = IF CallbackCompletes(b, state, outcome)
                   THEN SessionsAfterCallback(state, host, PyInt(identity), glist)
                   ELSE sessions
    /\ completed' = IF CallbackCompletes(b, state, outcome)
                    THEN completed \cup {<<state, host>>} ELSE completed
    /\ UNCHANGED clientVars
    /\ resp' = CallbackAnswer(b, state, host, outcome, upstream)
    /\ botResp' = NoResp
    /\ UNCHANGED <<oauth_state, issued, messages>>
    /\ UNCHANGED <<guilds, posted, lastRecon, saveVars>>

(***************************************************************************)
(* Broker: GET /user/session.                                              *)
(***************************************************************************)
unauthorized_response == [status |-> 401, body |-> [status |-> "Unauthorized"]]
Pass == [status |-> 0, body |-> [status |-> "pass"]]

\* Mutant: a host mismatch is answered differently from an unknown token.
SessionGateLeaky(state, host) ==
    IF state = NoValue \/ state \notin DOMAIN sessions THEN unauthorized_response
    ELSE IF sessions[state].host # host
         THEN [status |-> 403, body |-> [status |-> "Forbidden"]]
         ELSE Pass

\* Mutant: the host of the requester is not compared.
SessionGateNoHostCheck(state, host) ==
    IF state = NoValue \/ state \notin DOMAIN sessions THEN unauthorized_response
    ELSE Pass

\* The token and host checks of get_session.
SessionGate(state, host) ==
    IF state = NoValue \/ state \notin DOMAIN sessions THEN unauthorized_response
    ELSE IF sessions[state].host # host THEN unauthorized_response
    ELSE Pass

\* The exception that leaves get_session, which has no try block: the
\* connection error of the gateway call, or the KeyError of resp['approved']
\* when the gateway answered with an error body.
SessionRaised(state, gw) ==
    IF gw # "ok" THEN [status |-> 0, detail |-> "ClientConnectorError"]
    ELSE IF OverhaulResponse(sessions[state].guilds).status # 200
         THEN [status |-> 0, detail |-> "KeyError"]
    ELSE NoRaise

\* The answer once the checks passed: the gateway's approved mapping, or an
\* exception that leaves the handler when the gateway cannot be reached or
\* its answer carries no 'approved'; the server then answers 500 with the
\* plain text "Internal Server Error".
SessionAnswer(state, host, gw) ==
    IF SessionGate(state, host) # Pass
    THEN [op |-> "session", state |-> state, host |-> host, gw |-> gw,
          status |-> SessionGate(state, host).status,
          body |-> SessionGate(state, host).body,
          errorJson |-> FALSE, raised |-> NoRaise, escaped |-> FALSE]
    ELSE IF SessionRaised(state, gw) = NoRaise
    THEN [op |-> "session", state |-> state, host |-> host, gw |-> gw,
          status |-> 200,
          body |-> [status |-> "success", user_id |-> sessions[state].user_id,
                    guilds |-> OverhaulResponse(sessions[state].guilds).approved],
          errorJson |-> FALSE, raised |-> NoRaise, escaped |-> FALSE]
    ELSE [op |-> "session", state |-> state, host |-> host, gw |-> gw,
          status |-> 500, body |-> [status |-> "Internal Server Error"],
          errorJson |-> FALSE, raised |-> SessionRaised(state, gw), escaped |-> TRUE]

\* The handler's effect on the broker and the gateway.
ServeSession(state, host, gw) ==
    /\ resp' = SessionAnswer(state, host, gw)
    /\ IF SessionGate(state, host) = Pass /\ gw = "ok"
       THEN /\ botResp' = OverhaulResponse(sessions[state].guilds)
            /\ lastRecon' = ReconAfter(OverhaulResponse(sessions[state].guilds))
       ELSE /\ botResp' = NoResp
            /\ UNCHANGED lastRecon
    /\ UNCHANGED <<oauth_state, issued, sessions, completed>>
    /\ UNCHANGED <<guilds, posted, storeVars, saveVars>>

\* A session fetch by any requester.
GetSession(state, host, gw) ==
    /\ ServeSession(state, host, gw)
    /\ UNCHANGED clientVars

\* The guild cache as far as the login protocol exercises it: guild 7 and its
\* channel 100.
AuthGatewayEvent ==
    \/ \E chans \in SUBSET {100} : GuildJoin(7, chans, {42})
    \/ GuildRemove(7)
    \/ \E chans \in SUBSET {100} : GuildUpdate(7, chans, {42})

\* The requests a set of browser sessions can make to the login endpoints.
\* The provider's answers, its identity and guild list, and the requester's
\* host matter only where the handler gets as far as reading them.
LoginStep(Bs, Ts) ==
    \E b \in Bs, t \in Ts : Login(b, t)

CallbackStep(Bs, Ts, GuildLists) ==
    \E b \in Bs, state \in Ts \cup {NoValue} :
        \/ /\ ~CallbackStateOk(b, state)
           /\ Callback(b, state, "H", "ok", 0, "42", <<>>)
        \/ /\ CallbackStateOk(b, state)
           /\ Callback(b, state, "H", "token_error", 0, "42", <<>>)
        \/ /\ CallbackStateOk(b, state)
           /\ \E upstream \in UpstreamStatuses :
                 Callback(b, state, "H", "user_error", upstream, "42", <<>>)
        \/ /\ CallbackStateOk(b, state)
           /\ \E upstream \in UpstreamStatuses, identity \in {"42", "43"} :
                 Callback(b, state, "H", "guilds_error", upstream, identity, <<>>)
        \/ \E host \in Hosts, identity \in {"42", "43"}, glist \in GuildLists :
              /\ CallbackStateOk(b, state)
              /\ Callback(b, state, host, "ok", 0, identity, glist)

SessionStep(Ts, Gws) ==
    \E state \in Ts \cup {NoValue}, host \in Hosts, gw \in Gws :
        GetSession(state, host, gw)

\* The login protocol: any number of browser sessions logging in, completing
\* or replaying callbacks, and clients fetching sessions.
Next ==
    \/ LoginStep(Browsers, Tokens)
    \/ CallbackStep(Browsers, Tokens, {<<>>, <<[id |-> "7", name |-> "G"]>>})
    \/ SessionStep(Tokens, {"ok"})

Spec == Init /\ [][Next]_vars

\* One login and the fetches of its session while the gateway's guild cache
\* changes and the gateway serves reconciliation requests.
NextSession ==
    \/ LoginStep({"B1"}, {"T1"})
    \/ CallbackStep({"B1"}, {"T1"}, ProviderGuildLists)
    \/ SessionStep({"T1"}, {"ok", "unreachable"})
    \/ \E raw \in ProviderGuildLists : Reconcile(raw)
    \/ AuthGatewayEvent

SpecSession == Init /\ [][NextSession]_vars

(***************************************************************************)
(* Broker: the message endpoints and the storage behind them.              *)
(***************************************************************************)
\* POST /user/create and POST /guild/create: insert the record if absent.
UserCreate(u) ==
    /\ users' = users \cup {u}
    /\ UNCHANGED clientVars
    /\ resp' = [op |-> "user_create", status |-> 200]
    /\ botResp' = NoResp
    /\ UNCHANGED <<servers, messages>>
    /\ UNCHANGED <<guilds, posted, lastRecon, authVars, saveVars>>

GuildCreate(g) ==
    /\ servers' = servers \cup {g}
    /\ UNCHANGED clientVars
    /\ resp' = [op |-> "guild_create", status |-> 200]
    /\ botResp' = NoResp
    /\ UNCHANGED <<users, messages>>
    /\ UNCHANGED <<guilds, posted, lastRecon, authVars, saveVars>>

\* db.query(Message).filter_by(user_id=..., server_id=...)
Matching(u, s) == {r \in BagToSet(messages) : r.user_id = u /\ r.server_id = s}
HasMessage(u, s) == Matching(u, s) # {}
\* .first(): a matching row; which one, when there are several, is the
\* storage backend's choice.
FirstMessage(u, s) == CHOOSE r \in Matching(u, s) : TRUE

\* Message.user_id and Message.server_id are foreign keys to users.discord_id
\* and servers.discord_id: a commit that inserts a row for an unknown user or
\* server raises IntegrityError.
ForeignKeysHold(u, s) == u \in users /\ s \in servers

ReplaceContent(row, c) ==
    (messages (-) SetToBag({row})) (+) SetToBag({[row EXCEPT !.content = c]})

\* Mutant: an existing record keeps its content.
MessagesAfterSaveNoUpdate(u, s, c) ==
    IF HasMessage(u, s) THEN messages
    ELSE IF ForeignKeysHold(u, s)
         THEN messages (+) SetToBag({[user_id |-> u, server_id |-> s, content |-> c]})
         ELSE messages

\* Mutant: the save inserts a record whether or not the pair has one.
MessagesAfterSaveAlwaysInsert(u, s, c) ==
    IF ForeignKeysHold(u, s)
    THEN messages (+) SetToBag({[user_id |-> u, server_id |-> s, content |-> c]})
    ELSE messages

\* Mutant: the update reaches every record of the user, whatever its server.
MessagesAfterSaveAnyServer(u, s, c) ==
    IF HasMessage(u, s)
    THEN SetToBag({[r EXCEPT !.content = IF r.user_id = u THEN c ELSE @] :
                       r \in BagToSet(messages)})
    ELSE IF ForeignKeysHold(u, s)
         THEN messages (+) SetToBag({[user_id |-> u, server_id |-> s, content |-> c]})
         ELSE messages

\* save_message: update the record found, else insert one; the insert is
\* rolled back when a foreign key fails.
MessagesAfterSave(u, s, c) ==
    IF HasMessage(u, s) THEN ReplaceContent(FirstMessage(u, s), c)
    ELSE IF ForeignKeysHold(u, s)
         THEN messages (+) SetToBag({[user_id |-> u, server_id |-> s, content |-> c]})
         ELSE messages

SaveStatus(u, s) == IF HasMessage(u, s) \/ ForeignKeysHold(u, s) THEN 200 ELSE 500

\* had: whether a record existed when the request was handled.
SaveAnswer(u, s, c) ==
    [op |-> "save", user |-> u, server |-> s, content |-> c,
     status |-> SaveStatus(u, s), had |-> HasMessage(u, s),
     body |-> IF SaveStatus(u, s) = 200 THEN "save" ELSE "error",
     raised |-> IF SaveStatus(u, s) = 200 THEN NoRaise
                ELSE [status |-> 0, detail |-> "IntegrityError"],
     escaped |-> FALSE, errorJson |-> SaveStatus(u, s) # 200]

\* Mutant: a reset of a missing record creates it with the default content.
MessagesAfterResetUpsert(u, s) ==
    IF HasMessage(u, s) THEN ReplaceContent(FirstMessage(u, s), DefaultMessage)
    ELSE messages (+) SetToBag({[user_id |-> u, server_id |-> s, content |-> DefaultMessage]})

\* reset_message: the record found gets the default content.
MessagesAfterReset(u, s) ==
    IF HasMessage(u, s) THEN ReplaceContent(FirstMessage(u, s), DefaultMessage)
    ELSE messages

ResetAnswer(u, s) ==
    [op |-> "reset", user |-> u, server |-> s, content |-> DefaultMessage,
     status |-> IF HasMessage(u, s) THEN 200 ELSE 404, had |-> HasMessage(u, s),
     body |-> IF HasMessage(u, s) THEN "reset" ELSE "message not found",
     raised |-> NoRaise, escaped |-> FALSE, errorJson |-> FALSE]

\* What the previous answer was, when it answered a save or a reset.
Summary(r) ==
    IF r.op \in {"save", "reset"}
    THEN [op |-> r.op, user |-> r.user, server |-> r.server, content |-> r.content,
          status |-> r.status, had |-> r.had]
    ELSE [op |-> "other", user |-> 0, server |-> 0, content |-> "", status |-> 0,
          had |-> FALSE]

\* get_message: message.content; with no record, message is None and the
\* attribute access raises, which the handler answers with 500.
GetAnswer(u, s) ==
    [op |-> "get", user |-> u, server |-> s,
     status |-> IF HasMessage(u, s) THEN 200 ELSE 500,
     content |-> IF HasMessage(u, s) THEN FirstMessage(u, s).content ELSE NoValue,
     body |-> IF HasMessage(u, s) THEN "success" ELSE "error",
     raised |-> IF HasMessage(u, s) THEN NoRaise
                ELSE [status |-> 0, detail |-> "AttributeError"],
     escaped |-> FALSE, errorJson |-> ~HasMessage(u, s),
     prev |-> Summary(resp)]

\* A save request handled as soon as it arrives.
Save(u, s, c) ==
    /\ inflight = {}
    /\ messages' = MessagesAfterSave(u, s, c)
    /\ UNCHANGED clientVars
    /\ resp' = SaveAnswer(u, s, c)
    /\ botResp' = NoResp
    /\ UNCHANGED <<users, servers>>
    /\ UNCHANGED <<guilds, posted, lastRecon, authVars, saveVars>>

Reset(u, s) ==
    /\ messages' = MessagesAfterReset(u, s)
    /\ UNCHANGED clientVars
    /\ resp' = ResetAnswer(u, s)
    /\ botResp' = NoResp
    /\ UNCHANGED <<users, servers>>
    /\ UNCHANGED <<guilds, posted, lastRecon, authVars, saveVars>>

Get(u, s) ==
    /\ UNCHANGED clientVars
    /\ resp' = GetAnswer(u, s)
    /\ botResp' = NoResp
    /\ UNCHANGED storeVars
    /\ UNCHANGED <<guilds, posted, lastRecon, authVars, saveVars>>

\* POST /message/send: the content the query finds, "" when there is no
\* record.
MessageToSend(u, s) == IF HasMessage(u, s) THEN FirstMessage(u, s).content ELSE ""
\* if not message or not message.content: raise HTTPException(404)
Sendable(u, s) == MessageToSend(u, s) # ""

\* The HTTPException(404) is raised inside the try block, so the handler's
\* except clause answers it, like a failed gateway call, with 500 and the
\* JSON error body; otherwise the gateway's status is passed on.
BrokerSendAnswer(u, s, ch, gw) ==
    IF ~Sendable(u, s)
    THEN [op |-> "send", user |-> u, server |-> s, channel |-> ch, gw |-> gw,
          status |-> 500, body |-> "error", gatewayCalled |-> FALSE,
          raised |-> [status |-> 404, detail |-> "Message not found"],
          escaped |-> FALSE, errorJson |-> TRUE]
    ELSE IF gw # "ok"
    THEN [op |-> "send", user |-> u, server |-> s, channel |-> ch, gw |-> gw,
          status |-> 500, body |-> "error", gatewayCalled |-> TRUE,
          raised |-> [status |-> 0, detail |-> "ClientConnectorError"],
          escaped |-> FALSE, errorJson |-> TRUE]
    ELSE [op |-> "send", user |-> u, server |-> s, channel |-> ch, gw |-> gw,
          status |-> SendResponse(u, s, ch).status,
          body |-> IF SendResponse(u, s, ch).status = 200 THEN "success" ELSE "error",
          gatewayCalled |-> TRUE, raised |-> NoRaise,
          escaped |-> FALSE, errorJson |-> FALSE]

BrokerSend(u, s, ch, gw) ==
    /\ (Sendable(u, s) /\ gw = "ok" /\ SendResponse(u, s, ch).status = 200) =>
          Len(posted) < MaxPosts
    /\ UNCHANGED clientVars
    /\ resp' = BrokerSendAnswer(u, s, ch, gw)
    /\ IF Sendable(u, s) /\ gw = "ok"
       THEN /\ botResp' = SendAnswer(u, s, ch, MessageToSend(u, s))
            /\ posted' = PostedAfter(u, s, ch, MessageToSend(u, s))
       ELSE /\ botResp' = NoResp
            /\ UNCHANGED posted
    /\ UNCHANGED <<guilds, lastRecon>>
    /\ UNCHANGED <<authVars, storeVars, saveVars>>

\* A save request arrives while others may be waiting for the event loop.
SubmitSave(u, s, c) ==
    /\ inflight = {} \/ Cardinality(inflight) + Cardinality(batch) < MaxInflight
    /\ [user |-> u, server |-> s, content |-> c] \notin inflight
    /\ inflight' = inflight \cup {[user |-> u, server |-> s, content |-> c]}
    /\ batch' = IF inflight = {} THEN {} ELSE batch
    /\ UNCHANGED clientVars
    /\ resp' = NoResp
    /\ botResp' = NoResp
    /\ UNCHANGED storeVars
    /\ UNCHANGED <<guilds, posted, lastRecon, authVars>>

\* The event loop runs the handler of one waiting save to completion: the
\* handler has no await between its query and its commit.
HandleSave(r) ==
    /\ r \in inflight
    /\ messages' = MessagesAfterSave(r.user, r.server, r.content)
    /\ UNCHANGED clientVars
    /\ resp' = SaveAnswer(r.user, r.server, r.content)
    /\ inflight' = inflight \ {r}
    /\ batch' = batch \cup {[req |-> r, status |-> SaveStatus(r.user, r.server),
                             registered |-> ForeignKeysHold(r.user, r.server)]}
    /\ botResp' = NoResp
    /\ UNCHANGED <<users, servers>>
    /\ UNCHANGED <<guilds, posted, lastRecon, authVars>>

\* The (user, guild) pairs the concurrent saves address.
SavePairs == {<<42, 7>>, <<42, 8>>, <<43, 7>>}
SaveRequests == {[user |-> p[1], server |-> p[2], content |-> c] : p \in SavePairs, c \in Contents}

\* Message operations issued one after the other.
NextMsg ==
    \/ \E u \in UserIds : UserCreate(u)
    \/ \E g \in GuildIds : GuildCreate(g)
    \/ \E u \in UserIds, g \in GuildIds, c \in Contents : Save(u, g, c)
    \/ \E u \in UserIds, g \in GuildIds : Reset(u, g)
    \/ \E u \in UserIds, g \in GuildIds : Get(u, g)

SpecMsg == Init /\ [][NextMsg]_vars

\* Every handler of the broker serving one login and the messages of the
\* logged-in users for guild 7, while the gateway's guild cache changes.
NextBroker ==
    \/ LoginStep({"B1"}, {"T1"})
    \/ CallbackStep({"B1"}, {"T1"}, {<<[id |-> "7", name |-> "G"]>>})
    \/ SessionStep({"T1"}, {"ok", "unreachable"})
    \/ \E c \in {"hello", ""} : Save(42, 7, c)
    \/ Reset(42, 7)
    \/ \E u \in UserIds : Get(u, 7)
    \/ \E u \in UserIds, ch \in {100, 101}, gw \in {"ok", "unreachable"} :
          BrokerSend(u, 7, ch, gw)
    \/ AuthGatewayEvent

SpecBroker == Init /\ [][NextBroker]_vars

\* Save requests in flight together, handled in any order.
NextSaves ==
    \/ \E u \in UserIds : UserCreate(u)
    \/ \E g \in GuildIds : GuildCreate(g)
    \/ \E r \in SaveRequests : SubmitSave(r.user, r.server, r.content)
    \/ \E r \in SaveRequests : HandleSave(r)

SpecSaves == Init /\ [][NextSaves]_vars

\* The message endpoints together: saves in flight handled in any order
\* between resets, reads and sends of user 42's messages.
StoreRequests == {r \in SaveRequests : r.user = 42}

NextStore ==
    \/ UserCreate(42)
    \/ \E g \in GuildIds : GuildCreate(g)
    \/ \E r \in StoreRequests : SubmitSave(r.user, r.server, r.content)
    \/ \E r \in StoreRequests : HandleSave(r)
    \/ \E g \in GuildIds : Reset(42, g)
    \/ \E g \in GuildIds : Get(42, g)
    \/ BrokerSend(42, 7, 100, "ok")
    \/ GuildJoin(7, {100}, {42})

SpecStore == Init /\ [][NextStore]_vars

(***************************************************************************)
(* Client: the desktop application and its loopback listener.              *)
(***************************************************************************)
MaxStarting == 2

serverVars == <<guilds, posted, lastRecon, authVars, storeVars, saveVars>>

\* The host the broker sees the client's requests come from.
ClientHost == "H"

\* Request.status_code: a requests.Response is falsy when its status is 400
\* or more, so the wrapper reports every such answer, like no answer, as 500.
ClientStatusCode(r) == IF r.status < 400 THEN r.status ELSE 500

\* The listeners that hold the port.
Bound == {l \in Listeners : listener[l].at # "free"}

\* login_with_discord: start_auth_server starts a run_server thread unless
\* self.http_server is set, which only that thread does, later.
StartingAfterClick == IF http_server # NoListener THEN starting ELSE starting + 1

LoginClick ==
    /\ http_server = NoListener => starting < MaxStarting
    /\ starting' = StartingAfterClick
    /\ gui' = [gui EXCEPT !.status = "Check your browser for Discord login"]
    /\ UNCHANGED <<http_server, listener, app, events>>
    /\ UNCHANGED serverVars
    /\ resp' = NoResp
    /\ botResp' = NoResp

\* run_server: HTTPServer(('', 3000), AuthHandler) binds the port and the
\* thread publishes the object in self.http_server.  While another listener
\* holds the port the bind fails and the thread dies, or succeeds where the
\* platform's SO_REUSEADDR lets a second socket bind the same port.
RunServer(bindOk) ==
    /\ starting > 0
    /\ starting' = starting - 1
    /\ IF bindOk
       THEN /\ Listeners \ Bound # {}
            /\ LET l == CHOOSE x \in Listeners \ Bound : \A y \in Listeners \ Bound : x <= y
               IN  /\ listener' = [listener EXCEPT ![l] = [at |-> "serving", state |-> NoValue]]
                   /\ http_server' = l
            /\ UNCHANGED gui
       ELSE /\ Bound # {}
            /\ gui' = [gui EXCEPT !.log = "OSError"]
            /\ UNCHANGED <<http_server, listener>>
    /\ UNCHANGED <<app, events>>
    /\ UNCHANGED serverVars
    /\ resp' = NoResp
    /\ botResp' = NoResp

\* AuthHandler.do_GET up to the call of the controller: for /auth-success the
\* 200 response and its page are written to the browser first; any other
\* path gets 404.
DoGetRespond(l, path, state) ==
    /\ listener[l].at = "serving"
    /\ IF path = "/auth-success"
       THEN /\ listener' = [listener EXCEPT ![l] = [at |-> "responded", state |-> state]]
            /\ events' = [events EXCEPT ![l] = <<"200">>]
       ELSE /\ events' = [events EXCEPT ![l] = <<"404">>]
            /\ UNCHANGED listener
    /\ UNCHANGED <<http_server, starting, app, gui>>
    /\ UNCHANGED serverVars
    /\ resp' = NoResp
    /\ botResp' = NoResp

\* stop_auth_server called on the thread of listener l.  shutdown() waits for
\* serve_forever to leave its loop: called for the listener whose own thread
\* is the caller it waits for ever, and self.http_server stays set.
ListenerAfterStop(l) ==
    IF http_server = NoListener THEN [listener EXCEPT ![l].at = "serving"]
    ELSE IF http_server = l \/ listener[http_server].at = "blocked"
         THEN [listener EXCEPT ![l].at = "blocked"]
         ELSE [listener EXCEPT ![l].at = "serving", ![http_server] = Free]

HttpServerAfterStop(l) ==
    IF http_server = l \/ (http_server # NoListener /\ listener[http_server].at = "blocked")
    THEN http_server ELSE NoListener

\* Mutant: the failure branch of the callback stops the listener too.
ListenerAfterFailureStops(l) ==
    ListenerAfterStop(l)

\* The failure branch of the callback returns to do_GET, and the listener's
\* thread to its serving loop.
ListenerAfterFailure(l) ==
    [listener EXCEPT ![l].at = "serving"]

\* [g['name'] for g in self.guilds] and the loop of on_guild_selected: the
\* guilds are a mapping, iterating it yields its keys, which are strings, and
\* indexing a string by 'name' raises TypeError.
NamesRaise(g) == DOMAIN g # {}

\* Application.auth_callback(state), called by do_GET after the response was
\* written: the session fetch and what the controller does with its answer.
\* A stop of another listener waits until that listener's thread is back in
\* its loop.
DoGetCallback(l, gw) ==
    LET state == listener[l].state
        r == SessionAnswer(state, ClientHost, gw)
    IN  /\ listener[l].at = "responded"
        /\ ServeSession(state, ClientHost, gw)
        /\ events' = [events EXCEPT ![l] = Append(@, "callback")]
        /\ UNCHANGED starting
        /\ IF ClientStatusCode(r) # 200
           THEN /\ gui' = [gui EXCEPT !.status = "Auth failed (500): err"]
                /\ listener' = ListenerAfterFailure(l)
                /\ UNCHANGED <<app, http_server>>
           ELSE IF NamesRaise(r.body.guilds)
           THEN /\ app' = [app EXCEPT !.user_id = r.body.user_id, !.guilds = r.body.guilds]
                /\ gui' = [gui EXCEPT !.auth_panel = FALSE, !.guild_panel = TRUE,
                                      !.log = "TypeError"]
                /\ listener' = [listener EXCEPT ![l].at = "serving"]
                /\ UNCHANGED http_server
           ELSE /\ http_server \notin {NoListener, l} =>
                      listener[http_server].at \in {"serving", "blocked"}
                /\ app' = [app EXCEPT !.user_id = r.body.user_id, !.guilds = r.body.guilds,
                                      !.config_state = state]
                /\ gui' = [gui EXCEPT !.auth_panel = FALSE, !.guild_panel = TRUE,
                                      !.combo_items = {}, !.status = "Authorized"]
                /\ listener' = ListenerAfterStop(l)
                /\ http_server' = HttpServerAfterStop(l)

\* on_guild_selected: the combo hands over the chosen name.
GuildSelected(name) ==
    /\ gui' = [gui EXCEPT !.combo_value = name,
                          !.log = IF NamesRaise(app.guilds) THEN "TypeError" ELSE @]
    /\ UNCHANGED <<http_server, listener, starting, app, events>>
    /\ UNCHANGED serverVars
    /\ resp' = NoResp
    /\ botResp' = NoResp

\* The client logging in: clicks, the browser's requests to the broker and to
\* the loopback listener, while the gateway joins and leaves guild 7.
NextClient ==
    \/ LoginClick
    \/ \E bindOk \in BOOLEAN : RunServer(bindOk)
    \/ LoginStep({"B1"}, {"T1"})
    \/ \E host \in Hosts, glist \in {<<>>, <<[id |-> "7", name |-> "G"]>>} :
          Callback("B1", "T1", host, "ok", 0, "42", glist)
    \/ \E l \in Listeners :
          \/ \E state \in {"T1", NoValue} : DoGetRespond(l, "/auth-success", state)
          \/ DoGetRespond(l, "/favicon.ico", NoValue)
    \/ \E l \in Listeners, gw \in {"ok", "unreachable"} : DoGetCallback(l, gw)
    \/ GuildSelected("G")
    \/ GuildJoin(7, {100}, {42})
    \/ GuildRemove(7)

SpecClient == Init /\ [][NextClient]_vars

(***************************************************************************)
(* Client: the Send button.                                                *)
(***************************************************************************)
\* SendMessageRequest: the fields the broker's /message/send requires.
SendMessageRequest == {"user_id", "server_id", "channel_id"}

\* The JSON body Application.send_message posts.
ClientSendBody == [user_id |-> app.user_id, server_id |-> app.selected_guild_id]

\* if not self.user_id or not self.selected_guild_id: return
ClientSelected == app.user_id # NoId /\ app.selected_guild_id # NoId

\* The broker's answer to a posted body: a body that lacks a required field
\* fails the request validation and is answered 422 before the handler runs;
\* a valid one is handled by send_message.  fields: the fields of the body.
PostSendAnswer(body, gw) ==
    IF ~(SendMessageRequest \subseteq DOMAIN body)
    THEN [op |-> "send", user |-> body.user_id, server |-> body.server_id,
          channel |-> NoId, gw |-> gw, status |-> 422, body |-> "detail",
          gatewayCalled |-> FALSE, raised |-> NoRaise, escaped |-> FALSE,
          errorJson |-> FALSE, fields |-> DOMAIN body]
    ELSE BrokerSendAnswer(body.user_id, body.server_id, body.channel_id, gw)
             @@ [fields |-> DOMAIN body]

\* Application.send_message, run for a click on Send.
ClientSend(gw) ==
    /\ IF ~ClientSelected
       THEN /\ gui' = [gui EXCEPT !.status = "Not authenticated or server not selected"]
            /\ resp' = NoResp
            /\ botResp' = NoResp
            /\ UNCHANGED posted
       ELSE /\ resp' = PostSendAnswer(ClientSendBody, gw)
            /\ gui' = [gui EXCEPT !.status =
                          IF ClientStatusCode(PostSendAnswer(ClientSendBody, gw)) = 200
                          THEN "Sending" ELSE "Send failed (500)"]
            /\ IF PostSendAnswer(ClientSendBody, gw).gatewayCalled /\ gw = "ok"
               THEN /\ botResp' = SendAnswer(ClientSendBody.user_id, ClientSendBody.server_id,
                                             ClientSendBody.channel_id,
                                             MessageToSend(app.user_id, app.selected_guild_id))
                    /\ posted' = PostedAfter(ClientSendBody.user_id, ClientSendBody.server_id,
                                             ClientSendBody.channel_id,
                                             MessageToSend(app.user_id, app.selected_guild_id))
               ELSE /\ botResp' = NoResp
                    /\ UNCHANGED posted
    /\ UNCHANGED <<http_server, listener, starting, app, events>>
    /\ UNCHANGED <<guilds, lastRecon, authVars, storeVars, saveVars>>

\* The client with a user id and a guild selected, or not: the fields
\* send_message reads, drawn from every value they are declared to take.
InitSelected ==
    /\ guilds = <<>>
    /\ posted = <<>>
    /\ botResp = NoResp
    /\ lastRecon = NoRecon
    /\ oauth_state = [b \in Browsers |-> NoValue]
    /\ issued = {}
    /\ sessions = <<>>
    /\ users = {}
    /\ servers = {}
    /\ messages = EmptyBag
    /\ resp = NoResp
    /\ completed = {}
    /\ inflight = {}
    /\ batch = {}
    /\ http_server = NoListener
    /\ listener = [l \in Listeners |-> Free]
    /\ starting = 0
    /\ app \in [user_id : {NoId, 42}, guilds : {<<>>},
                 selected_guild_id : {NoId, 7}, config_state : {NoValue}]
    /\ gui = [status |-> "Unauthorized", auth_panel |-> TRUE, guild_panel |-> FALSE,
              message_panel |-> FALSE, combo_items |-> {}, combo_value |-> "",
              log |-> "none"]
    /\ events = [l \in Listeners |-> <<>>]

\* Clicks on Send while records are created and messages saved at the broker
\* and the gateway's guild cache changes.
NextClientSend ==
    \/ \E u \in UserIds : UserCreate(u)
    \/ \E g \in GuildIds : GuildCreate(g)
    \/ \E u \in UserIds, c \in {"hello", ""} : Save(u, 7, c)
    \/ \E gw \in {"ok", "unreachable"} : ClientSend(gw)
    \/ AuthGatewayEvent

SpecClientSend == InitSelected /\ [][NextClientSend]_vars

(***************************************************************************)
(* Properties of the login protocol.                                       *)
(***************************************************************************)
\* C1: for every token a callback completed with from host H, a session fetch
\* presenting that token succeeds exactly when it comes from H.
C1_HostBound ==
    resp.op = "session" =>
        \A c \in completed :
            c[1] = resp.state => ((resp.status = 200) <=> (resp.host = c[2]))

\* C2: a session fetch refused for an unknown or missing token and one refused
\* for a host mismatch get the same status, 401, and the same body; in every
\* store, a caller from a wrong host gets the same answer for a token that
\* exists as for one that does not.
C2_RejectionsIndistinguishable ==
    /\ (resp.op = "session" /\ SessionGate(resp.state, resp.host) # Pass) =>
          /\ resp.status = 401
          /\ resp.body = [status |-> "Unauthorized"]
    /\ \A known \in DOMAIN sessions, unknown \in (Tokens \cup {NoValue}) \ DOMAIN sessions,
          h \in Hosts :
          sessions[known].host # h =>
              /\ SessionAnswer(known, h, "ok").status = SessionAnswer(unknown, h, "ok").status
              /\ SessionAnswer(known, h, "ok").body = SessionAnswer(unknown, h, "ok").body

\* A fetch refused for a host mismatch while another token is unknown.
C2_Witness ==
    /\ resp.op = "session"
    /\ resp.state \in DOMAIN sessions
    /\ sessions[resp.state].host # resp.host
    /\ resp.status = 401
    /\ Tokens \ DOMAIN sessions # {}

\* C3: once the store holds a session for a token, no later step replaces it:
\* host, user id and raw guilds stay those of the first creation.
C3_CreatedOnce ==
    [][\A t \in DOMAIN sessions : t \in DOMAIN sessions' /\ sessions'[t] = sessions[t]]_vars

\* C9: with Session{host=H, userId=42, guilds=[{id:7,name:"G"}]} stored under
\* T1 and the gateway a member of guild 7 whose only channel is 100 "general",
\* a fetch of T1 from H answers 200 with user_id 42 and a guilds mapping whose
\* only key is 7 (the JSON key "7"), its channels being channel 100 named
\* "general"; a fetch of T1 from any other host answers 401.
C9_Precondition ==
    /\ resp.op = "session"
    /\ resp.state = "T1"
    /\ resp.gw = "ok"
    /\ "T1" \in DOMAIN sessions
    /\ sessions["T1"] = [host |-> "H", user_id |-> 42,
                         guilds |-> <<[id |-> "7", name |-> "G"]>>]
    /\ 7 \in DOMAIN guilds
    /\ guilds[7].channels = {100}

C9_EndToEnd ==
    C9_Precondition =>
        IF resp.host = "H"
        THEN /\ resp.status = 200
             /\ resp.body.user_id = 42
             /\ DOMAIN resp.body.guilds = {"7"}
             /\ resp.body.guilds["7"].id = 7
             /\ DOMAIN resp.body.guilds["7"].channels = {"100"}
             /\ resp.body.guilds["7"].channels["100"] = [id |-> 100, name |-> "general"]
        ELSE resp.status = 401

\* The fetch from the other host, refused, in the scenario's state.
C9_Witness ==
    /\ C9_Precondition
    /\ resp.host = "otherhost"
    /\ resp.status = 401

(***************************************************************************)
(* Properties of the message endpoints.                                    *)
(***************************************************************************)
SamePair(a, b) == a.user = b.user /\ a.server = b.server

\* C6 as stated: for every (user, guild) pair and content c, a get that
\* follows save(u,s,c) answers c, whether or not a record existed; a get that
\* follows a reset of an existing record answers "Default message".
C6_RoundTrip ==
    (resp.op = "get" /\ SamePair(resp, resp.prev)) =>
        /\ resp.prev.op = "save" =>
              (resp.status = 200 /\ resp.content = resp.prev.content)
        /\ (resp.prev.op = "reset" /\ resp.prev.had) =>
              (resp.status = 200 /\ resp.content = DefaultMessage)

\* C6 amended: the round trip holds for every pair whose user record and
\* server record exist, whether or not a message record existed before the
\* save; for any other pair the save is answered 500 and stores nothing.
C6_RoundTripRegistered ==
    (resp.op = "get" /\ SamePair(resp, resp.prev)) =>
        /\ (resp.prev.op = "save" /\ ForeignKeysHold(resp.user, resp.server)) =>
              (resp.prev.status = 200 /\ resp.status = 200 /\ resp.content = resp.prev.content)
        /\ (resp.prev.op = "save" /\ ~ForeignKeysHold(resp.user, resp.server)) =>
              (resp.prev.status = 500 /\ ~HasMessage(resp.user, resp.server))
        /\ (resp.prev.op = "reset" /\ resp.prev.had) =>
              (resp.status = 200 /\ resp.content = DefaultMessage)

\* A get that returns what a save just wrote over an existing record.
C6_Witness ==
    /\ resp.op = "get"
    /\ SamePair(resp, resp.prev)
    /\ resp.prev.op = "save"
    /\ resp.prev.had
    /\ resp.content = resp.prev.content

\* C7: a reset of a pair that has no message record answers 404 and leaves
\* the message store as it was.
C7_ResetMissing ==
    [][(resp'.op = "reset" /\ ~HasMessage(resp'.user, resp'.server)) =>
          (resp'.status = 404 /\ messages' = messages)]_vars

\* A reset answered 404 while other pairs have records and the pair still has none.
C7_Witness ==
    /\ resp.op = "reset"
    /\ resp.status = 404
    /\ ~HasMessage(resp.user, resp.server)
    /\ ForeignKeysHold(resp.user, resp.server)
    /\ messages # EmptyBag

ContentsOf(u, s) == {r.content : r \in Matching(u, s)}

\* Two saves were in flight together and both have been handled.
TwoSavesDone == inflight = {} /\ Cardinality(batch) = 2

\* C10 as stated: after two concurrent saves on distinct pairs each pair's
\* record holds the content submitted for it; after two on the same pair the
\* record holds one of the two contents.
C10_ConcurrentSaves ==
    TwoSavesDone =>
        \A a \in batch : \A b \in batch \ {a} :
            IF SamePair(a.req, b.req)
            THEN /\ ContentsOf(a.req.user, a.req.server) # {}
                 /\ ContentsOf(a.req.user, a.req.server) \subseteq {a.req.content, b.req.content}
            ELSE ContentsOf(a.req.user, a.req.server) = {a.req.content}

\* C10 amended: the same, for the saves whose user and server records exist
\* when they are handled; these are the saves answered 200, the others are
\* answered 500 and write nothing.
C10_ConcurrentSavesRegistered ==
    TwoSavesDone =>
        \A a \in batch : \A b \in batch \ {a} :
            /\ a.status = (IF a.registered THEN 200 ELSE 500)
            /\ IF SamePair(a.req, b.req)
               THEN (a.registered \/ b.registered) =>
                       /\ ContentsOf(a.req.user, a.req.server) # {}
                       /\ ContentsOf(a.req.user, a.req.server) \subseteq
                              {a.req.content, b.req.content}
                       /\ (a.registered /\ ~b.registered) =>
                              ContentsOf(a.req.user, a.req.server) = {a.req.content}
               ELSE /\ a.registered => ContentsOf(a.req.user, a.req.server) = {a.req.content}
                    /\ ~a.registered => ContentsOf(a.req.user, a.req.server) = {}

\* Two saves of different contents for one registered pair, both handled.
C10_Witness ==
    /\ TwoSavesDone
    /\ \E a \in batch : \E b \in batch \ {a} :
          SamePair(a.req, b.req) /\ a.registered /\ b.registered

(***************************************************************************)
(* Properties of the gateway.                                              *)
(***************************************************************************)
RawIds(raw) == {PyInt(raw[i].id) : i \in 1..Len(raw)}

\* C4: every approved guild id is one the gateway was a member of when it
\* answered and one that occurs in the raw input, so the approved ids are a
\* subset of the raw ids; each entry is filed under its own id.
C4_ReconcileSound ==
    (botResp.op = "overhaul_guilds" /\ botResp.status = 200) =>
        /\ ApprovedIds(botResp) \subseteq botResp.memberOf
        /\ ApprovedIds(botResp) \subseteq RawIds(botResp.raw)
        /\ \A k \in DOMAIN botResp.approved : botResp.approved[k].id = PyInt(k)

\* A reconciliation that approved one guild and dropped another.
C4_Witness ==
    /\ botResp.op = "overhaul_guilds"
    /\ botResp.status = 200
    /\ ApprovedIds(botResp) # {}
    /\ RawIds(botResp.raw) \ botResp.memberOf # {}

\* C5: when a raw list is reconciled twice in a row with no guild joined or
\* left in between, the second call approves the same set of ids as the first.
C5_ReconcileIdempotent ==
    lastRecon.repeated => lastRecon.ids = lastRecon.prevIds

\* A repeated reconciliation that approved a guild whose channel list is empty
\* at the second call.
C5_Witness ==
    /\ lastRecon.repeated
    /\ \E g \in lastRecon.ids : g \in DOMAIN guilds /\ guilds[g].channels = {}

\* C8: a send request posts exactly one notification, to the requested channel,
\* if and only if the server is known, the user is a member of it and the
\* channel exists in it; otherwise the answer is 404, names the first missing
\* entity in the order server, user, channel, and the log of posts is unchanged.
C8_SendGuarded ==
    [][botResp'.op = "send_message" =>
        LET r == botResp'.req
            known == r.server \in DOMAIN guilds
            member == known /\ r.user \in guilds[r.server].members
            exists == known /\ r.channel \in guilds[r.server].channels
        IN  /\ (known /\ member /\ exists) =>
                /\ botResp'.status = 200
                /\ posted' = Append(posted, [server |-> r.server, channel |-> r.channel,
                                              author |-> r.user, description |-> r.content])
            /\ ~(known /\ member /\ exists) =>
                /\ botResp'.status = 404
                /\ posted' = posted
                /\ botResp'.error =
                      IF ~known THEN "Server not found"
                      ELSE IF ~member THEN "User not found"
                      ELSE "System channel not found"]_vars

\* After a notification was posted, a request for a channel the server lacks,
\* by a member of the server, is refused.
C8_Witness ==
    /\ Len(posted) > 0
    /\ botResp.op = "send_message"
    /\ botResp.status = 404
    /\ botResp.error = "System channel not found"

(***************************************************************************)
(* Properties of the callback handler.                                     *)
(***************************************************************************)
\* The callback just answered was refused by the state checks.
StateRefused(r) == r.state = NoValue \/ r.bound = NoValue \/ r.state # r.bound

\* C11: a callback changes the session store only when its state parameter is
\* present and equals the state bound in the requester's browser session; a
\* callback with no state is answered 400, one whose state differs from the
\* bound value (or finds no bound value) is refused, and in both cases the
\* session store and the user and server records stay as they were and no
\* provider call is made.
C11_CallbackStateChecked ==
    [][resp'.op = "callback" =>
          /\ sessions' # sessions => ~StateRefused(resp')
          /\ resp'.state = NoValue => resp'.status = 400
          /\ StateRefused(resp') =>
                /\ resp'.status >= 400
                /\ sessions' = sessions
                /\ users' = users
                /\ servers' = servers
                /\ resp'.calls = <<>>]_vars

\* A callback carrying a state bound in another browser session, refused
\* while the store holds a session.
C11_Witness ==
    /\ resp.op = "callback"
    /\ resp.state # NoValue
    /\ resp.bound # NoValue
    /\ resp.state # resp.bound
    /\ resp.state \in issued
    /\ resp.status = 400
    /\ resp.calls = <<>>
    /\ DOMAIN sessions # {}

\* C12: a callback refused because its state is not the state bound at login
\* is answered 401, unlike the 400 of a missing state parameter.
C12_StateMismatch401 ==
    (resp.op = "callback" /\ resp.state # NoValue /\ StateRefused(resp)) =>
        resp.status = 401

\* C13: when the provider answers the identity fetch or the guild-list fetch
\* with a non-success status, the callback is answered with that status or
\* with 500, and the session store is left as it was.
C13_UpstreamErrorStatus ==
    [][(resp'.op = "callback" /\ resp'.upstream # 0) =>
          /\ resp'.status \in {resp'.upstream, 500}
          /\ sessions' = sessions]_vars

(***************************************************************************)
(* Properties of the broker's error handling.                              *)
(***************************************************************************)
\* C14: when the gateway cannot be reached or answers with an error while a
\* session fetch that passed the token and host checks reconciles, the fetch
\* is answered with an error status and a JSON error body; it is not answered
\* 200 and no exception leaves the handler.
C14_GatewayFailureSurfaced ==
    (/\ resp.op = "session"
     /\ resp.status # 401
     /\ (resp.gw # "ok" \/ botResp.op # "overhaul_guilds" \/ botResp.status # 200)) =>
        /\ resp.status >= 400
        /\ resp.errorJson
        /\ ~resp.escaped

\* The answers of the handlers the error-handling rule speaks of.
HandlerOps == {"login", "callback", "session", "get", "save", "reset", "send"}

\* C15: whenever an exception is raised inside a broker handler, the answer
\* has status 500 and the JSON body {status: error, error: message}, and the
\* exception does not leave the handler.
C15_ExceptionsBecome500 ==
    (resp.op \in HandlerOps /\ resp.raised # NoRaise) =>
        /\ resp.status = 500
        /\ resp.errorJson
        /\ ~resp.escaped

\* C16: a get for a pair that has no message record is answered 404; a broker
\* send for a pair with no record, or with a record of empty content, is
\* answered 404 and the gateway is not called.
C16_AbsentMessage404 ==
    /\ (resp.op = "get" /\ ~HasMessage(resp.user, resp.server)) =>
          resp.status = 404
    /\ (resp.op = "send" /\ ~Sendable(resp.user, resp.server)) =>
          /\ resp.status = 404
          /\ ~resp.gatewayCalled

(***************************************************************************)
(* Properties of the client.                                               *)
(***************************************************************************)
\* The step is the controller's callback, run for a captured state token.
CallbackRan == \E l \in Listeners : events'[l] = Append(events[l], "callback")

\* C17: when the listener has captured a state token and the controller's
\* callback has run, whatever the session fetch answered, the listener is
\* stopped: the stop has returned, the listener that captured the token no
\* longer holds the port and the listener reference is cleared; and a stop
\* with no listener referenced closes nothing.
C17_ListenerStopped ==
    [][CallbackRan =>
          /\ http_server' = NoListener
          /\ \A l \in Listeners :
                listener[l].at = "responded" /\ listener'[l].at # "responded" =>
                    listener'[l] = Free
          /\ http_server = NoListener =>
                \A l \in Listeners : listener'[l] = Free <=> listener[l] = Free]_vars

\* C18: for an auth-completion request the controller's callback runs before
\* the 200 response is sent, and a request for any other path gets 404 and
\* runs no callback.
C18_CallbackBeforeResponse ==
    \A l \in Listeners :
        /\ \A j \in DOMAIN events[l] :
              events[l][j] = "200" =>
                  \E i \in DOMAIN events[l] : i < j /\ events[l][i] = "callback"
        /\ (\E j \in DOMAIN events[l] : events[l][j] = "404") =>
              \A i \in DOMAIN events[l] : events[l][i] # "callback"

\* C19: at most one listener exists or is being created at a time, a start
\* during a running or starting listener creating none; and no stop leaves a
\* listener waiting for ever, so that a later login can start one afresh.
C19_SingleListener ==
    /\ Cardinality(Bound) + starting <= 1
    /\ \A l \in Listeners : listener[l].at # "blocked"

\* C20: when the session fetch answers 200 with user id u and a non-empty
\* mapping G, the callback leaves user_id = u and guilds = G, offers the name
\* of every guild of G, shows the status Authorized and records the token in
\* the config; and a chosen name that is offered selects the guild of that
\* name.
C20_CallbackStoresSession ==
    [][/\ (CallbackRan /\ resp'.status = 200 /\ DOMAIN resp'.body.guilds # {}) =>
             /\ app'.user_id = resp'.body.user_id
             /\ app'.guilds = resp'.body.guilds
             /\ gui'.combo_items =
                    {resp'.body.guilds[k].name : k \in DOMAIN resp'.body.guilds}
             /\ gui'.status = "Authorized"
             /\ app'.config_state = resp'.state
       /\ (gui'.combo_value # gui.combo_value /\ gui'.combo_value \in gui'.combo_items) =>
             \E k \in DOMAIN app'.guilds :
                 /\ app'.guilds[k].name = gui'.combo_value
                 /\ app'.selected_guild_id = app'.guilds[k].id]_vars

C22_KeysAreIssuedTokens ==
    [][/\ DOMAIN sessions' \subseteq issued'
       /\ (resp'.op = "callback" /\ resp'.status = 307) =>
             /\ resp'.redirect \in DOMAIN sessions'
             /\ resp'.redirect = resp'.bound
             /\ \A t \in DOMAIN sessions' :
                   (t \notin DOMAIN sessions \/ sessions'[t] # sessions[t]) =>
                       t = resp'.redirect]_vars

\* A callback completed for one token while another issued token has no
\* session.
C22_Witness ==
    /\ resp.op = "callback"
    /\ resp.status = 307
    /\ resp.redirect \in DOMAIN sessions
    /\ issued \ DOMAIN sessions # {}

\* C23: no step removes a key from the session store and a session fetch,
\* answered 200 or refused, leaves the store as it was; so once a fetch of
\* token T from host H was answered 200, T and H still pass the token and
\* host checks after any later step.
C23_SessionsKept ==
    [][/\ DOMAIN sessions \subseteq DOMAIN sessions'
       /\ resp'.op = "session" => sessions' = sessions
       /\ (resp.op = "session" /\ resp.status = 200) =>
             /\ resp.state \in DOMAIN sessions'
             /\ sessions'[resp.state].host = resp.host]_vars

(***************************************************************************)
(* Properties of the reconciliation's output.                              *)
(***************************************************************************)
\* C24: a reconciliation of raw guilds answers 200 whether or not the guilds
\* are joined, and every raw guild the gateway is a member of at the call is
\* in the approved mapping under its id, with channels and members entries
\* holding exactly the ids of the channels and members the gateway has for
\* that guild at the call.
C24_ReconcileComplete ==
    (/\ botResp.op = "overhaul_guilds"
     /\ \A i \in 1..Len(botResp.raw) : PyIntOk(botResp.raw[i].id)) =>
        /\ botResp.status = 200
        /\ \A g \in RawIds(botResp.raw) \cap DOMAIN guilds :
              /\ JsonKey(g) \in DOMAIN botResp.approved
              /\ botResp.approved[JsonKey(g)].id = g
              /\ {PyInt(c) : c \in DOMAIN botResp.approved[JsonKey(g)].channels}
                    = guilds[g].channels
              /\ {PyInt(m) : m \in DOMAIN botResp.approved[JsonKey(g)].members}
                    = guilds[g].members
              /\ \A c \in DOMAIN botResp.approved[JsonKey(g)].channels :
                    botResp.approved[JsonKey(g)].channels[c].id = PyInt(c)
              /\ \A m \in DOMAIN botResp.approved[JsonKey(g)].members :
                    botResp.approved[JsonKey(g)].members[m].id = PyInt(m)

\* A reconciliation that approved a guild with two channels and a member and
\* dropped a guild that is not joined.
C24_Witness ==
    /\ botResp.op = "overhaul_guilds"
    /\ botResp.status = 200
    /\ RawIds(botResp.raw) \ DOMAIN guilds # {}
    /\ \E g \in RawIds(botResp.raw) \cap DOMAIN guilds :
          /\ Cardinality(guilds[g].channels) = 2
          /\ guilds[g].members # {}
          /\ JsonKey(g) \in DOMAIN botResp.approved

(***************************************************************************)
(* Properties of the client's failure handling.                            *)
(***************************************************************************)
\* C25: when the session fetch of the controller's callback is answered with
\* a status other than 200, the callback leaves user_id, guilds,
\* selected_guild_id and the token of the config as they were and shows a
\* failure status; the listener that handled the request is serving again
\* and the listener reference is untouched, so a retried login finds a
\* listener to capture its token.
C25_FailureKeepsState ==
    [][(CallbackRan /\ resp'.status # 200) =>
          /\ app' = app
          /\ gui' = [gui EXCEPT !.status = "Auth failed (500): err"]
          /\ http_server' = http_server
          /\ starting' = starting
          /\ \A l \in Listeners :
                IF listener[l].at = "responded" /\ events'[l] # events[l]
                THEN listener'[l].at = "serving"
                ELSE listener'[l] = listener[l]]_vars

\* A refused fetch after an earlier callback had stored a user id, which is
\* still there, the listener serving again.
C25_Witness ==
    /\ resp.op = "session"
    /\ resp.status = 401
    /\ gui.status = "Auth failed (500): err"
    /\ app.user_id # NoId
    /\ http_server # NoListener
    /\ listener[http_server].at = "serving"

(***************************************************************************)
(* Properties relating the session store to the stored records.            *)
(***************************************************************************)
\* C26: in every reachable state, every session of the session store has a
\* user record for its user id and a server record for every guild of its
\* raw guild list.
C26_SessionsHaveRecords ==
    \A t \in DOMAIN sessions :
        /\ sessions[t].user_id \in users
        /\ \A i \in 1..Len(sessions[t].guilds) : PyInt(sessions[t].guilds[i].id) \in servers

\* A session with a non-empty guild list next to a user record that no
\* session refers to: the converse does not hold.
C26_Witness ==
    /\ \E t \in DOMAIN sessions : Len(sessions[t].guilds) > 0
    /\ \E u \in users : \A t \in DOMAIN sessions : sessions[t].user_id # u

(***************************************************************************)
(* Properties of the state bound to a browser session.                     *)
(***************************************************************************)
\* C27: a browser session holds one state: a login binds the token it
\* generated to the requesting browser session in place of the one bound
\* before and touches no other browser session; a callback carrying a
\* generated token other than the bound one is refused for its invalid state
\* and stores no session; a callback carrying the bound token passes the
\* state check, and stores its session when the provider's calls succeed.
C27_LatestStateOnly ==
    [][/\ resp'.op = "login" =>
             \E b \in Browsers :
                 /\ oauth_state'[b] = resp'.state
                 /\ \A o \in Browsers \ {b} : oauth_state'[o] = oauth_state[o]
       /\ (/\ resp'.op = "callback"
           /\ resp'.state \in issued
           /\ resp'.bound # NoValue
           /\ resp'.state # resp'.bound) =>
              /\ resp'.status = 400
              /\ resp'.raised.detail = "Invalid state"
              /\ sessions' = sessions
       /\ (/\ resp'.op = "callback"
           /\ resp'.state # NoValue
           /\ resp'.state = resp'.bound) =>
              /\ resp'.raised.detail \notin {"Invalid state", "Missing state parameter"}
              /\ resp'.calls # <<>>
              /\ resp'.raised = NoRaise =>
                    /\ resp'.status = 307
                    /\ resp'.state \in DOMAIN sessions']_vars

\* Both tokens were generated for the one browser session that ever logged
\* in; the callback carrying the earlier one was just refused, no session
\* stored.
C27_Witness ==
    /\ resp.op = "callback"
    /\ issued = Tokens
    /\ \E b \in Browsers :
          /\ oauth_state[b] = resp.bound
          /\ \A o \in Browsers \ {b} : oauth_state[o] = NoValue
    /\ resp.state \in issued
    /\ resp.bound \in issued
    /\ resp.state # resp.bound
    /\ resp.status = 400
    /\ sessions = << >>

(***************************************************************************)
(* Properties of the message store's records.                              *)
(***************************************************************************)
\* The records the store holds for a pair, copies counted.
RecordsOf(bag, u, s) ==
    BagCardinality([r \in {x \in BagToSet(bag) : x.user_id = u /\ x.server_id = s} |->
                        CopiesIn(r, bag)])

\* C28: after every save, reset, get and send, handled in any order, the
\* message store holds at most one record for each (user, guild) pair; a
\* save for a pair that has a record is answered 200 and changes the content
\* of that record, the number of records staying the same.
C28_OneRecordPerPair ==
    [][/\ \A u \in UserIds, s \in GuildIds : RecordsOf(messages', u, s) <= 1
       /\ (resp'.op = "save" /\ resp'.had) =>
             /\ resp'.status = 200
             /\ BagCardinality(messages') = BagCardinality(messages)
             /\ [user_id |-> resp'.user, server_id |-> resp'.server,
                 content |-> resp'.content] \in BagToSet(messages')]_vars

\* A save just replaced the other content in the record of its pair, while a
\* second pair has a record too.
C28_Witness ==
    /\ resp.op = "save"
    /\ resp.had
    /\ resp.status = 200
    /\ BagCardinality(messages) = 2
    /\ \E r \in batch : r.req.user = resp.user /\ r.req.server = resp.server
                          /\ r.req.content # resp.content

====
